---- MODULE Spec2Model ----
(***************************************************************************)
(* Model of server/server.js: the TLE catalog parser (parseTLEs), the      *)
(* file-backed TLE cache (isStale, getConstellationTLEs) and the coverage  *)
(* request handler (GET /api/:constellation/coverage).                     *)
(*                                                                         *)
(* Text is a sequence of one-character strings.  Time is in milliseconds.  *)
(* Real numbers are fixed point: elevation in 1/100 degree, slant range in *)
(* 1/10 km, path loss in 1/1000 dB, coverage radius in metres.             *)
(***************************************************************************)
EXTENDS Integers, Sequences, FiniteSets, TLC

VARIABLES
  cache,            \* the files of CACHE_DIR, by group
  now,              \* Date.now()
  ticks,            \* how often the clock has advanced
  pc,               \* where each request's handler stands
  constellationOf,  \* req.params.constellation of each request in flight
  maxSatsOf,        \* req.query.maxSats of each request
  calls,            \* what each request in flight has done so far
  sent,             \* the response the step just taken has sent, if any
  answered,         \* what the request it answers had done, and the list
                    \* getConstellationTLEs returned to it
  looks             \* what satellite.js yielded for that response

vars ==
  <<cache, now, ticks, pc, constellationOf, maxSatsOf, calls, sent, answered, looks>>

-----------------------------------------------------------------------------
(* Bounds of the model *)

\* number of coverage requests the model lets arrive
NReq == 2

\* number of times the clock is advanced
MaxTicks == 2

Requests == 1..NReq

-----------------------------------------------------------------------------
(* JavaScript values: a number is Num(v) with v in the fixed-point unit of   *)
(* its quantity, or one of the non-finite doubles; JSON null is Null.        *)

Num(v) == [k |-> "num", v |-> v]

NaN == [k |-> "NaN", v |-> 0]

Null == [k |-> "null", v |-> 0]

\* Number.isFinite
IsFinite(x) == x.k = "num"

-----------------------------------------------------------------------------
(* Strings (JavaScript String methods used by the server) *)

IsWhitespace(c) == c \in {" ", "\n", "\t", "\r"}

RECURSIVE TrimStart(_)
TrimStart(s) ==
  IF s = <<>> THEN <<>>
  ELSE IF IsWhitespace(Head(s)) THEN TrimStart(Tail(s)) ELSE s

RECURSIVE TrimEnd(_)
TrimEnd(s) ==
  IF s = <<>> THEN <<>>
  ELSE IF IsWhitespace(s[Len(s)]) THEN TrimEnd(SubSeq(s, 1, Len(s) - 1)) ELSE s

\* String.prototype.trim
Trim(s) == TrimEnd(TrimStart(s))

\* String.prototype.split('\n'): always at least one (possibly empty) piece.
\* The text is cut at its middle newline and the pieces of both parts are
\* concatenated.
RECURSIVE SplitLines(_)
SplitLines(s) ==
  LET newlines == {k \in 1..Len(s) : s[k] = "\n"}
  IN IF newlines = {} THEN <<s>>
     ELSE LET mid == CHOOSE k \in newlines :
                       Cardinality({j \in newlines : j < k}) = Cardinality(newlines) \div 2
          IN SplitLines(SubSeq(s, 1, mid - 1)) \o SplitLines(SubSeq(s, mid + 1, Len(s)))

\* String.prototype.startsWith
StartsWith(s, p) == Len(s) >= Len(p) /\ SubSeq(s, 1, Len(p)) = p

Min(a, b) == IF a < b THEN a ELSE b

\* String.prototype.substring(from, to), 0-based, end exclusive, clipped
Substring(s, from, to) == SubSeq(s, Min(from, Len(s)) + 1, Min(to, Len(s)))

Digits == <<"0", "1", "2", "3", "4", "5", "6", "7", "8", "9">>

IsDigit(c) == \E d \in 1..10 : Digits[d] = c

DigitValue(c) == (CHOOSE d \in 1..10 : Digits[d] = c) - 1

RECURSIVE DigitPrefix(_, _)
DigitPrefix(s, acc) ==
  IF s = <<>> \/ ~IsDigit(Head(s)) THEN acc
  ELSE DigitPrefix(Tail(s), acc * 10 + DigitValue(Head(s)))

HexDigits ==
  <<"0", "1", "2", "3", "4", "5", "6", "7", "8", "9", "A", "B", "C", "D", "E", "F">>

LowerHexDigits == <<"a", "b", "c", "d", "e", "f">>

IsHexDigit(c) ==
  (\E d \in 1..16 : HexDigits[d] = c) \/ (\E d \in 1..6 : LowerHexDigits[d] = c)

HexDigitValue(c) ==
  IF \E d \in 1..16 : HexDigits[d] = c
  THEN (CHOOSE d \in 1..16 : HexDigits[d] = c) - 1
  ELSE (CHOOSE d \in 1..6 : LowerHexDigits[d] = c) + 9

RECURSIVE HexPrefix(_, _)
HexPrefix(s, acc) ==
  IF s = <<>> \/ ~IsHexDigit(Head(s)) THEN acc
  ELSE HexPrefix(Tail(s), acc * 16 + HexDigitValue(Head(s)))

\* a parseInt that yields 0 where there is no digit
ParseIntOrZero(s) ==
  LET t    == TrimStart(s)
      neg  == t # <<>> /\ Head(t) = "-"
      body == IF t # <<>> /\ Head(t) \in {"-", "+"} THEN Tail(t) ELSE t
  IN IF neg THEN Num(0 - DigitPrefix(body, 0)) ELSE Num(DigitPrefix(body, 0))

\* parseInt(s) without radix: leading whitespace skipped, optional sign, a
\* 0x or 0X prefix selects radix 16, then the longest run of digits of the
\* radix; NaN when there is no digit
ParseInt(s) ==
  LET t      == TrimStart(s)
      neg    == t # <<>> /\ Head(t) = "-"
      body   == IF t # <<>> /\ Head(t) \in {"-", "+"} THEN Tail(t) ELSE t
      hex    == Len(body) >= 2 /\ body[1] = "0" /\ body[2] \in {"x", "X"}
      digits == IF hex THEN SubSeq(body, 3, Len(body)) ELSE body
      value  == IF hex THEN HexPrefix(digits, 0) ELSE DigitPrefix(digits, 0)
  IN IF digits = <<>> THEN NaN
     ELSE IF hex /\ ~IsHexDigit(Head(digits)) THEN NaN
     ELSE IF ~hex /\ ~IsDigit(Head(digits)) THEN NaN
     ELSE IF neg THEN Num(0 - value) ELSE Num(value)

-----------------------------------------------------------------------------
(* parseTLEs *)

MaxSats == 30

\* Array.prototype.slice(-n): the last n
SliceLast(seq, n) == SubSeq(seq, (IF Len(seq) > n THEN Len(seq) - n ELSE 0) + 1, Len(seq))

\* Array.prototype.slice(0, n)
Slice(seq, n) == SubSeq(seq, 1, Min(n, Len(seq)))

\* lines[k] for a 0-based k: <<line>>, or <<>> for undefined past the end
LineAt(lines, k) == IF k + 1 <= Len(lines) THEN <<lines[k + 1]>> ELSE <<>>

\* line?.startsWith(prefix)
OptStartsWith(line, p) == line # <<>> /\ StartsWith(line[1], p)

\* a loop that ends at the first triplet it does not accept
RECURSIVE ParseLoopAborting(_, _, _)
ParseLoopAborting(lines, i, sats) ==
  IF ~(i < Len(lines) - 1) THEN sats
  ELSE LET line1 == LineAt(lines, i + 1)
           line2 == LineAt(lines, i + 2)
       IN IF OptStartsWith(line1, <<"1", " ">>) /\ OptStartsWith(line2, <<"2", " ">>)
          THEN ParseLoopAborting(lines, i + 3,
                 Append(sats, [noradId |-> ParseInt(Substring(line1[1], 2, 7)),
                               line1 |-> line1[1], line2 |-> line2[1]]))
          ELSE sats

\* a loop that looks for the next triplet one line further when it does not
\* accept the lines at i
RECURSIVE ParseLoopResynchronising(_, _, _)
ParseLoopResynchronising(lines, i, sats) ==
  IF ~(i < Len(lines) - 1) THEN sats
  ELSE LET line1 == LineAt(lines, i + 1)
           line2 == LineAt(lines, i + 2)
       IN IF OptStartsWith(line1, <<"1", " ">>) /\ OptStartsWith(line2, <<"2", " ">>)
          THEN ParseLoopResynchronising(lines, i + 3,
                 Append(sats, [noradId |-> ParseInt(Substring(line1[1], 2, 7)),
                               line1 |-> line1[1], line2 |-> line2[1]]))
          ELSE ParseLoopResynchronising(lines, i + 1, sats)

\* the for loop of parseTLEs
RECURSIVE ParseLoop(_, _, _)
ParseLoop(lines, i, sats) ==
  IF ~(i < Len(lines) - 1) THEN sats
  ELSE LET line1 == LineAt(lines, i + 1)
           line2 == LineAt(lines, i + 2)
       IN IF OptStartsWith(line1, <<"1", " ">>) /\ OptStartsWith(line2, <<"2", " ">>)
          THEN ParseLoop(lines, i + 3,
                 Append(sats, [noradId |-> ParseInt(Substring(line1[1], 2, 7)),
                               line1 |-> line1[1], line2 |-> line2[1]]))
          ELSE ParseLoop(lines, i + 3, sats)

parseTLEs(tleText) ==
  Slice(ParseLoop(SplitLines(Trim(tleText)), 0, <<>>), MaxSats)

-----------------------------------------------------------------------------
(* Catalog texts the upstream service may answer with *)

NameA == <<"I", "S", "S">>

Line1A == <<"1", " ", "2", "5", "5", "4", "4", "U">>

Line2A == <<"2", " ", "2", "5", "5", "4", "4">>

NameB == <<"V", "G", "D">>

Line1B == <<"1", " ", "0", "0", "0", "0", "5", "U">>

Line2B == <<"2", " ", "0", "0", "0", "0", "5">>

BadLine1 == <<"X", " ", "2", "5", "5", "4", "4", "U">>

\* the lines, each ended by CR LF
RECURSIVE JoinLines(_)
JoinLines(ls) ==
  IF ls = <<>> THEN <<>>
  ELSE IF Len(ls) = 1 THEN ls[1] \o <<"\r", "\n">>
  ELSE JoinLines(SubSeq(ls, 1, Len(ls) \div 2))
       \o JoinLines(SubSeq(ls, Len(ls) \div 2 + 1, Len(ls)))

CatalogTwo == JoinLines(<<NameA, Line1A, Line2A, NameB, Line1B, Line2B>>)

CatalogMalformed == JoinLines(<<NameA, BadLine1, Line2A>>)

EmptyBody == <<>>

BlankBody == <<" ", "\r", "\n">>

UpstreamBodies == {CatalogTwo, CatalogMalformed, EmptyBody, BlankBody}

-----------------------------------------------------------------------------
(* Catalog texts for the parser: every sequence of up to MaxTriplets         *)
(* triplets drawn from TripletKinds, catalogs around the cap of 30, and      *)
(* catalogs with one line in excess or missing                               *)

\* number of triplets of the enumerated catalogs
MaxTriplets == 3

\* catalog number padded with blanks: columns 3 to 7 hold "   42"
Line1Padded == <<"1", " ", " ", " ", " ", "4", "2", "U">>

\* catalog number in Alpha-5 notation: columns 3 to 7 hold "A0001"
Line1Alpha == <<"1", " ", "A", "0", "0", "0", "1", "U">>

\* columns 3 to 7 hold "0x1F7"
Line1Hex == <<"1", " ", "0", "x", "1", "F", "7", "U">>

BadLine2 == <<"3", " ", "0", "0", "0", "0", "5">>

TripletKinds ==
  {<<NameA, Line1A, Line2A>>,
   <<NameB, Line1B, Line2B>>,
   <<NameA, Line1Padded, Line2A>>,
   <<NameB, Line1Alpha, Line2B>>,
   <<NameA, Line1Hex, Line2A>>,
   <<NameA, BadLine1, Line2A>>,
   <<NameB, Line1B, BadLine2>>}

RECURSIVE Concat(_)
Concat(seqs) ==
  IF seqs = <<>> THEN <<>>
  ELSE IF Len(seqs) = 1 THEN seqs[1]
  ELSE Concat(SubSeq(seqs, 1, Len(seqs) \div 2))
       \o Concat(SubSeq(seqs, Len(seqs) \div 2 + 1, Len(seqs)))

EnumeratedCatalogs ==
  {JoinLines(Concat(f)) : f \in UNION {[1..n -> TripletKinds] : n \in 1..MaxTriplets}}

\* the k-th triplet of a long catalog, 1 <= k <= 99, with catalog number k;
\* malformed when k is in bad
NumberedTriplet(k, bad) ==
  LET id == <<"0", "0", "0", Digits[(k \div 10) + 1], Digits[(k % 10) + 1]>>
  IN <<<<"S">>,
       (IF k \in bad THEN <<"X", " ">> ELSE <<"1", " ">>) \o id,
       <<"2", " ">> \o id>>

NumberedCatalog(n, bad) ==
  JoinLines(Concat([k \in 1..n |-> NumberedTriplet(k, bad)]))

\* catalogs of 29, 30 and 31 well-formed triplets, and of 31 and 32 triplets
\* of which the second is malformed
LongCatalogs ==
  {NumberedCatalog(MaxSats - 1, {}), NumberedCatalog(MaxSats, {}),
   NumberedCatalog(MaxSats + 1, {}), NumberedCatalog(MaxSats + 1, {2}),
   NumberedCatalog(MaxSats + 2, {2})}

\* the lines of three well-formed triplets
ThreeTriplets ==
  <<NameA, Line1A, Line2A, NameB, Line1B, Line2B, NameA, Line1Padded, Line2A>>

\* a line a catalog may hold in excess: a blank line, a second name line, a
\* repeated line 1 or line 2
StrayLines == {<<>>, NameB, Line1A, Line2A}

\* the lines ls with line l put after the first p of them
InsertAt(ls, p, l) == SubSeq(ls, 1, p) \o <<l>> \o SubSeq(ls, p + 1, Len(ls))

\* the lines ls without the p-th
RemoveAt(ls, p) == SubSeq(ls, 1, p - 1) \o SubSeq(ls, p + 1, Len(ls))

\* the three triplets with one line in excess, or with one line missing,
\* at every place
ShiftedCatalogs ==
  {JoinLines(InsertAt(ThreeTriplets, p, l)) :
     p \in 0..Len(ThreeTriplets), l \in StrayLines}
  \cup {JoinLines(RemoveAt(ThreeTriplets, p)) : p \in 1..Len(ThreeTriplets)}

CatalogTexts ==
  UpstreamBodies \cup EnumeratedCatalogs \cup LongCatalogs \cup ShiftedCatalogs

\* parseTLEs of each text a response body or a cache file can hold in the
\* model, evaluated once
ParsedTexts == [text \in CatalogTexts |-> parseTLEs(text)]

\* parseTLEs(tleData), parseTLEs(resp.data)
Parsed(text) == ParsedTexts[text]

\* an axios.get without a timeout, against a service that never answers:
\* the promise stays pending
FetchOutcomesNeverSettling == {}

\* what axios.get(url, {timeout: 10000}) settles with: a rejection (timeout,
\* non-2xx status) or a response carrying resp.data
FetchOutcomes ==
  {[kind |-> "timeout", data |-> <<>>], [kind |-> "httpError", data |-> <<>>]}
  \cup {[kind |-> "ok", data |-> b] : b \in UpstreamBodies}

-----------------------------------------------------------------------------
(* The cache directory: one file <group>.tle per group *)

MIN_REFRESH_MS == 2 * 60 * 60 * 1000

Groups == {"iridium", "starlink", "kuiper"}

\* constellation ids the requests of the model carry: an L-band group, a
\* Ka-band group, an id that is no key of the groups object, and an id found
\* on Object.prototype
Constellations == {"iridium", "starlink", "galileo", "constructor"}

\* groups[constellation] || 'iridium'
GroupOfDefaulting(constellation) ==
  IF constellation \in Groups THEN [k |-> "string", v |-> constellation]
  ELSE [k |-> "string", v |-> "iridium"]

\* groups[constellation]
GroupOf(constellation) ==
  IF constellation \in Groups THEN [k |-> "string", v |-> constellation]
  ELSE IF constellation = "constructor" THEN [k |-> "function", v |-> constellation]
  ELSE [k |-> "undefined", v |-> constellation]

NoFile == [exists |-> FALSE, text |-> <<>>, mtimeMs |-> 0]

File(text, t) == [exists |-> TRUE, text |-> text, mtimeMs |-> t]

\* isStale with the comparison turned round
isStaleInverted(file, nowMs) ==
  IF ~file.exists THEN TRUE
  ELSE nowMs - file.mtimeMs < MIN_REFRESH_MS

\* isStale that keeps a file holding element sets however old it is
isStaleByContent(file, nowMs) ==
  IF ~file.exists THEN TRUE
  ELSE nowMs - file.mtimeMs > MIN_REFRESH_MS /\ Parsed(file.text) = <<>>

isStale(file, nowMs) ==
  IF ~file.exists THEN TRUE
  ELSE nowMs - file.mtimeMs > MIN_REFRESH_MS

\* a check that takes only the empty string for an empty response
IsEmptyResponseUntrimmed(data) == data = <<>>

\* !resp.data || !resp.data.trim()
IsEmptyResponse(data) == data = <<>> \/ Trim(data) = <<>>

\* the try block of getConstellationTLEs completes without throwing
FetchSucceeded(o) == o.kind = "ok" /\ ~IsEmptyResponse(o.data)

\* why the try block threw
FailureOf(o) ==
  IF o.kind # "ok" THEN o.kind
  ELSE IF IsEmptyResponse(o.data) THEN "emptyBody" ELSE "none"

\* a write that leaves an existing file alone (flag 'wx', error swallowed)
WriteCacheIfMissing(c, group, data, nowMs) ==
  IF c[group].exists THEN c
  ELSE [c EXCEPT ![group] = [exists |-> TRUE, text |-> data, mtimeMs |-> nowMs]]

\* a writer that leaves alone a file another request has refreshed since
\* (first write wins)
WriteCacheUnlessFresh(c, group, data, nowMs) ==
  IF c[group].exists /\ nowMs - c[group].mtimeMs <= MIN_REFRESH_MS THEN c
  ELSE [c EXCEPT ![group] = [exists |-> TRUE, text |-> data, mtimeMs |-> nowMs]]

\* a writer that keeps the file it has when the body holds no element set
WriteCacheIfParsable(c, group, data, nowMs) ==
  IF Parsed(data) = <<>> THEN c
  ELSE [c EXCEPT ![group] = [exists |-> TRUE, text |-> data, mtimeMs |-> nowMs]]

\* fs.writeFileSync(cachePath, resp.data, 'utf8')
WriteCache(c, group, data, nowMs) == [c EXCEPT ![group] = File(data, nowMs)]

\* a catch block that removes the file it could not refresh
CatchCacheClearing(c, group, reason) ==
  [c EXCEPT ![group] = [exists |-> FALSE, text |-> <<>>, mtimeMs |-> 0]]

\* a catch block that unlinks the file when the upstream body was empty
CatchCacheUnlinkingOnEmptyBody(c, group, reason) ==
  IF reason = "emptyBody"
  THEN [c EXCEPT ![group] = [exists |-> FALSE, text |-> <<>>, mtimeMs |-> 0]]
  ELSE c

\* a catch block that touches the file it falls back to, so that the next
\* requests take it for fresh
CatchCacheTouching(c, group, reason) ==
  IF c[group].exists THEN [c EXCEPT ![group].mtimeMs = now] ELSE c

\* the catch block of getConstellationTLEs: the cache after it
CatchCache(c, group, reason) == c

\* a catch block that rethrows even when the file exists
CatchNeverFallsBack(c, group, reason) == FALSE

\* a catch block that reads the file without looking whether it exists
CatchAlwaysFallsBack(c, group, reason) == TRUE

\* a catch block that abides by the staleness check made before the fetch: a
\* file written since then, which is fresh, is not fallen back to
CatchFallsBackOnStaleOnly(c, group, reason) ==
  c[group].exists /\ isStale(c[group], now)

\* the catch block of getConstellationTLEs: fall back to the file if it exists
CatchHasFallback(c, group, reason) == c[group].exists

\* a catch block that takes an empty body for an empty catalog
CatchReturnByReason(c, group, reason) ==
  IF reason = "emptyBody" THEN <<>> ELSE Parsed(c[group].text)

\* the catch block of getConstellationTLEs: the list it returns
CatchReturn(c, group, reason) == Parsed(c[group].text)

-----------------------------------------------------------------------------
(* HTTP responses *)

\* the messages of the errors getConstellationTLEs throws (without the names
\* they interpolate)
UnknownConstellation == "Unknown constellation"

NotAFunction == "group.toUpperCase is not a function"

NoCacheAvailable == "Failed to fetch and no cache available"

NoResponse ==
  [req |-> 0, status |-> 0, error |-> "", constellation |-> "", satellites |-> <<>>]

\* res.status(500).json({ error: error.message })
ErrorResponse(r, message) ==
  [req |-> r, status |-> 500, error |-> message, constellation |-> "",
   satellites |-> <<>>]

\* a handler that takes an empty result for a failure
OkResponseUnlessEmpty(r, constellation, results) ==
  IF results = <<>>
  THEN [req |-> r, status |-> 500, error |-> "No satellites", constellation |-> "",
        satellites |-> <<>>]
  ELSE [req |-> r, status |-> 200, error |-> "", constellation |-> constellation,
        satellites |-> results]

\* res.json({ observer, constellation, satellites: results })
OkResponse(r, constellation, results) ==
  [req |-> r, status |-> 200, error |-> "", constellation |-> constellation,
   satellites |-> results]

-----------------------------------------------------------------------------
(* Per-satellite geometry and link budget *)

\* what one iteration of the for loop meets: the instant its new Date() reads,
\* in milliseconds since the loop began (at), and what satellite.js yields
\* for the element set at that instant: an exception, a propagation without
\* position, or a position with the geodetic position (lat, lng in 1/100
\* degree, height in km) and the look angles (elevation in 1/100 degree,
\* rangeSat in 1/10 km) it leads to
SatOutcomes ==
  {[kind |-> "throws", elevation |-> NaN, rangeSat |-> NaN, height |-> 0,
    lat |-> 0, lng |-> 0, at |-> 0],
   [kind |-> "noPosition", elevation |-> NaN, rangeSat |-> NaN, height |-> 0,
    lat |-> 0, lng |-> 0, at |-> 0],
   [kind |-> "position", elevation |-> Num(4500), rangeSat |-> Num(5500), height |-> 550,
    lat |-> 4542, lng |-> 0 - 7570, at |-> 0],
   [kind |-> "position", elevation |-> Num(4500), rangeSat |-> Num(5510), height |-> 550,
    lat |-> 4542, lng |-> 0 - 7570, at |-> 0],
   [kind |-> "position", elevation |-> Num(1004), rangeSat |-> Num(5500), height |-> 550,
    lat |-> 4542, lng |-> 0 - 7570, at |-> 0],
   [kind |-> "position", elevation |-> Num(1000), rangeSat |-> Num(5500), height |-> 550,
    lat |-> 4542, lng |-> 0 - 7570, at |-> 0],
   [kind |-> "position", elevation |-> Num(4500), rangeSat |-> Num(14500000), height |-> 780,
    lat |-> 4542, lng |-> 0 - 7570, at |-> 0],
   [kind |-> "position", elevation |-> Num(9000), rangeSat |-> Num(0), height |-> 550,
    lat |-> 4542, lng |-> 0 - 7570, at |-> 0],
   [kind |-> "position", elevation |-> NaN, rangeSat |-> NaN, height |-> 550,
    lat |-> 4542, lng |-> 0 - 7570, at |-> 0],
   [kind |-> "position", elevation |-> Num(4500), rangeSat |-> Num(5500), height |-> 550,
    lat |-> 4542, lng |-> 0 - 7570, at |-> 1]}

\* Math.round(x / scale) for a fixed-point x: halves round up
Round(x, scale) == (2 * x + scale) \div (2 * scale)

\* +(x).toFixed(1) for x in 1/100: the result in 1/10, halves away from zero
ToFixed1(x) ==
  IF ~IsFinite(x) THEN NaN
  ELSE IF x.v >= 0 THEN Num((x.v + 5) \div 10)
  ELSE Num(0 - ((0 - x.v + 5) \div 10))

\* 1000 * 20 * Math.log10(rangeKm), rounded, for rangeKm given in 1/10 km
TwentyLog10Range(rangeSat) ==
  CASE rangeSat = 5500 -> 54807
    [] rangeSat = 5510 -> 54823
    [] rangeSat = 14500000 -> 123227

\* the frequency table of the handler, in 1/10 GHz, with its || 1.6 default
FreqGHz(constellation) ==
  CASE constellation = "iridium" -> 16
    [] constellation = "starlink" -> 120
    [] constellation = "kuiper" -> 120
    [] OTHER -> 16

\* 1000 * 20 * Math.log10(freqGHz), rounded, for freqGHz given in 1/10 GHz
TwentyLog10Freq(f) == IF f = 16 THEN 4082 ELSE 21584

\* a path loss with the range term subtracted
PathLossDbSubtracting(rangeSat, constellation) ==
  32440 - TwentyLog10Range(rangeSat) + TwentyLog10Freq(FreqGHz(constellation))

\* 32.44 + 20 * Math.log10(rangeKm) + 20 * Math.log10(freqGHz), in 1/1000 dB
PathLossDb(rangeSat, constellation) ==
  32440 + TwentyLog10Range(rangeSat) + TwentyLog10Freq(FreqGHz(constellation))

\* EARTH_RADIUS * (acos(EARTH_RADIUS * cos(elevRad) / (EARTH_RADIUS + h)) - elevRad),
\* in metres, for the heights satellite.js yields in this model
CoverageRadiusKm(h) == IF h = 550 THEN 1664319 ELSE 2076119

\* JSON.stringify of a number: NaN and the infinities become null
ToJson(x) == IF IsFinite(x) THEN x ELSE Null

\* Number.isFinite(rangeKm) && rangeKm > 0
RangeUsable(rangeSat) == IsFinite(rangeSat) /\ rangeSat.v > 0

\* elevation >= 10 && pathLossDb < 160
AvailableInclusive(elevation, pathLossDb) ==
  IsFinite(elevation) /\ elevation.v >= 1000 /\ pathLossDb < 160000

\* elevation > 10 && pathLossDb < 160
Available(elevation, pathLossDb) ==
  IsFinite(elevation) /\ elevation.v > 1000 /\ pathLossDb < 160000

\* the object pushed for a satellite with a usable range, as serialized
LinkEntry(constellation, sat, o) ==
  LET pathLossDb == PathLossDb(o.rangeSat.v, constellation)
  IN [noradId |-> ToJson(sat.noradId),
      lat |-> o.lat, lng |-> o.lng, altitudeKm |-> o.height,
      elevation |-> ToJson(ToFixed1(o.elevation)),
      rangeKm |-> Num(Round(o.rangeSat.v, 10)),
      pathLossDb |-> Num(Round(pathLossDb, 1000)),
      coverageRadiusKm |-> CoverageRadiusKm(o.height),
      available |-> Available(o.elevation, pathLossDb)]

\* the object pushed for a satellite whose range is non-finite or <= 0
NullEntry(constellation, sat, o) ==
  [noradId |-> ToJson(sat.noradId),
   lat |-> o.lat, lng |-> o.lng, altitudeKm |-> o.height,
   elevation |-> ToJson(ToFixed1(o.elevation)),
   rangeKm |-> Null,
   pathLossDb |-> Null,
   coverageRadiusKm |-> CoverageRadiusKm(o.height),
   available |-> FALSE]

\* an iteration that skips a satellite whose range is unusable
SatEntriesDropping(constellation, sat, o) ==
  IF o.kind = "throws" THEN <<>>
  ELSE IF o.kind = "noPosition" THEN <<>>
  ELSE IF RangeUsable(o.rangeSat) THEN <<LinkEntry(constellation, sat, o)>>
  ELSE <<>>

\* one iteration of the for loop: the entries it pushes (none or one)
SatEntries(constellation, sat, o) ==
  IF o.kind = "throws" THEN <<>>
  ELSE IF o.kind = "noPosition" THEN <<>>
  ELSE IF RangeUsable(o.rangeSat) THEN <<LinkEntry(constellation, sat, o)>>
  ELSE <<NullEntry(constellation, sat, o)>>

\* a for loop without the inner try: the first exception ends it
RECURSIVE CoverageLoopAborting(_, _, _, _)
CoverageLoopAborting(constellation, list, outcomes, results) ==
  IF list = <<>> THEN results
  ELSE IF Head(outcomes).kind = "throws" THEN results
  ELSE CoverageLoopAborting(constellation, Tail(list), Tail(outcomes),
         results \o SatEntries(constellation, Head(list), Head(outcomes)))

IsAvailable(e) == e.available

IsNotAvailable(e) == ~e.available

\* a for loop whose results are then sorted, the available satellites first
RECURSIVE CoverageLoopAvailableFirst(_, _, _, _)
CoverageLoopAvailableFirst(constellation, list, outcomes, results) ==
  IF list = <<>>
  THEN SelectSeq(results, IsAvailable) \o SelectSeq(results, IsNotAvailable)
  ELSE CoverageLoopAvailableFirst(constellation, Tail(list), Tail(outcomes),
         results \o SatEntries(constellation, Head(list), Head(outcomes)))

\* the for loop over tleList
RECURSIVE CoverageLoop(_, _, _, _)
CoverageLoop(constellation, list, outcomes, results) ==
  IF list = <<>> THEN results
  ELSE CoverageLoop(constellation, Tail(list), Tail(outcomes),
         results \o SatEntries(constellation, Head(list), Head(outcomes)))

\* req.query.maxSats: absent, or the number a client sent
MaxSatsValues == {Null, Num(10), Num(300)}

\* a handler that returns at most maxSats entries
ResultsUpToMaxSats(constellation, list, outcomes, maxSats) ==
  LET results == CoverageLoop(constellation, list, outcomes, <<>>)
  IN IF IsFinite(maxSats) THEN Slice(results, maxSats.v) ELSE results

\* the results of the handler: of req.query it reads lat, lng and alt, and
\* maxSats is none of them
Results(constellation, list, outcomes, maxSats) ==
  CoverageLoop(constellation, list, outcomes, <<>>)

-----------------------------------------------------------------------------
(* The state machine.  A request is one action up to its await of axios.get  *)
(* and one action from there on: the handler's other await, on the promise   *)
(* of getConstellationTLEs, resumes in the microtask of the same turn, with  *)
(* no other handler in between.                                              *)

ClockSteps == {1, MIN_REFRESH_MS}

\* a request that has called neither the network nor the file system;
\* served names the return or throw of getConstellationTLEs it took
NoCalls == [netCalls |-> 0, cacheReads |-> 0, cacheWrites |-> 0, served |-> "none"]

\* no axios.get has settled
NoFetch == [kind |-> "none", data |-> <<>>]

NotAnswered ==
  [req |-> 0, constellation |-> "", list |-> <<>>, calls |-> NoCalls,
   fetch |-> NoFetch]

Answered(r, constellation, list, c, o) ==
  [req |-> r, constellation |-> constellation, list |-> list, calls |-> c,
   fetch |-> o]

NoFiles == [g \in Groups |-> NoFile]

\* the server starts: CACHE_DIR is new, or holds the file an earlier run wrote
Init ==
  /\ cache \in {NoFiles} \cup {WriteCache(NoFiles, g, CatalogTwo, 0) : g \in Groups}
  /\ now = 0
  /\ ticks = 0
  /\ pc = [r \in Requests |-> "idle"]
  /\ constellationOf = [r \in Requests |-> ""]
  /\ maxSatsOf = [r \in Requests |-> Null]
  /\ calls = [r \in Requests |-> NoCalls]
  /\ sent = NoResponse
  /\ answered = NotAnswered
  /\ looks = <<>>

\* the step sends no response
Silent ==
  /\ sent' = NoResponse
  /\ answered' = NotAnswered
  /\ looks' = <<>>

\* the wall clock advances
Tick(d) ==
  /\ ticks < MaxTicks
  /\ ticks' = ticks + 1
  /\ now' = now + d
  /\ Silent
  /\ UNCHANGED <<cache, pc, constellationOf, maxSatsOf, calls>>

\* getConstellationTLEs throws: the handler's catch answers with the message
Reject(r, constellation, message, c, o) ==
  /\ pc' = [pc EXCEPT ![r] = "done"]
  /\ constellationOf' = [constellationOf EXCEPT ![r] = ""]
  /\ calls' = [calls EXCEPT ![r] = NoCalls]
  /\ sent' = ErrorResponse(r, message)
  /\ answered' = Answered(r, constellation, <<>>, [c EXCEPT !.served = "error"], o)
  /\ looks' = <<>>
  /\ now' = now

\* the instant satellite.propagate(satrec, now) is given in an iteration
PropagatedAt(o) == o.at

\* the instant satellite.gstime(now) is given in the same iteration
GstimeAt(o) == o.at

\* the wall clock does not run backwards while the loop runs
InLoopOrder(outcomes) ==
  \A i \in 1..(Len(outcomes) - 1) : outcomes[i].at <= outcomes[i + 1].at

\* the milliseconds the loop took up to its last iteration
Elapsed(outcomes) == IF outcomes = <<>> THEN 0 ELSE outcomes[Len(outcomes)].at

\* getConstellationTLEs returns a list: the handler's for loop and res.json
Respond(r, constellation, list, c, o, Outcomes) ==
  \E outcomes \in [1..Len(list) -> Outcomes] :
    /\ InLoopOrder(outcomes)
    /\ now' = now + Elapsed(outcomes)
    /\ pc' = [pc EXCEPT ![r] = "done"]
    /\ constellationOf' = [constellationOf EXCEPT ![r] = ""]
    /\ calls' = [calls EXCEPT ![r] = NoCalls]
    /\ looks' = outcomes
    /\ sent' = OkResponse(r, constellation,
                 Results(constellation, list, outcomes, maxSatsOf[r]))
    /\ answered' = Answered(r, constellation, list, c, o)

\* a request arrives: the handler runs up to the response or to axios.get
StartRequest(r, constellation, Outcomes) ==
  /\ pc[r] = "idle"
  /\ \A q \in 1..(r - 1) : pc[q] # "idle"
  /\ LET group == GroupOf(constellation)
     IN \/ /\ group.k = "undefined"
           /\ Reject(r, constellation, UnknownConstellation, calls[r], NoFetch)
        \/ /\ group.k = "function"
           /\ Reject(r, constellation, NotAFunction, calls[r], NoFetch)
        \/ /\ group.k = "string"
           /\ ~isStale(cache[group.v], now)
           /\ Respond(r, constellation, Parsed(cache[group.v].text),
                      [calls[r] EXCEPT !.served = "cache", !.cacheReads = @ + 2],
                      NoFetch, Outcomes)
        \/ /\ group.k = "string"
           /\ isStale(cache[group.v], now)
           /\ pc' = [pc EXCEPT ![r] = "fetching"]
           /\ constellationOf' = [constellationOf EXCEPT ![r] = constellation]
           /\ calls' = [calls EXCEPT ![r].netCalls = @ + 1, ![r].cacheReads = @ + 1]
           /\ now' = now
           /\ Silent
  /\ UNCHANGED <<cache, ticks, maxSatsOf>>

\* axios.get settles: the rest of the try block or the catch block, then the
\* handler
FetchSettles(r, o, Outcomes) ==
  /\ pc[r] = "fetching"
  /\ LET group == constellationOf[r]
         reason == FailureOf(o)
     IN \/ /\ FetchSucceeded(o)
           /\ cache' = WriteCache(cache, group, o.data, now)
           /\ Respond(r, group, Parsed(o.data),
                      [calls[r] EXCEPT !.served = "fetch", !.cacheWrites = @ + 1],
                      o, Outcomes)
        \/ /\ ~FetchSucceeded(o)
           /\ CatchHasFallback(cache, group, reason)
           /\ cache' = CatchCache(cache, group, reason)
           /\ Respond(r, group, CatchReturn(cache, group, reason),
                      [calls[r] EXCEPT !.served = "fallback", !.cacheReads = @ + 2],
                      o, Outcomes)
        \/ /\ ~FetchSucceeded(o)
           /\ ~CatchHasFallback(cache, group, reason)
           /\ cache' = CatchCache(cache, group, reason)
           /\ Reject(r, group, NoCacheAvailable,
                     [calls[r] EXCEPT !.cacheReads = @ + 1], o)
  /\ UNCHANGED <<ticks, maxSatsOf>>

\* the outcomes the requests of Spec meet: an exception and a satellite in
\* view, in a loop that takes less than a millisecond
CoreOutcomes ==
  {o \in SatOutcomes :
     /\ o.at = 0
     /\ \/ o.kind = "throws"
        \/ o.kind = "position" /\ o.elevation = Num(4500) /\ o.rangeSat = Num(5500)}

\* a satellite in view
LiveOutcomes == {o \in CoreOutcomes : o.kind = "position"}

Next ==
  \/ \E d \in ClockSteps : Tick(d)
  \/ \E r \in Requests, c \in Constellations : StartRequest(r, c, CoreOutcomes)
  \/ \E r \in Requests, o \in FetchOutcomes : FetchSettles(r, o, CoreOutcomes)

Spec == Init /\ [][Next]_vars

-----------------------------------------------------------------------------
(* The handler on every outcome of satellite.js: one request at a time, no   *)
(* clock.                                                                    *)

NextCoverage ==
  \/ \E c \in Constellations : StartRequest(1, c, SatOutcomes)
  \/ \E o \in FetchOutcomes : FetchSettles(1, o, SatOutcomes)

SpecCoverage == Init /\ [][NextCoverage]_vars

-----------------------------------------------------------------------------
(* The handler on every outcome of satellite.js while the files age: one     *)
(* request, with the clock.                                                  *)

NextDegraded ==
  \/ \E d \in ClockSteps : Tick(d)
  \/ \E c \in Constellations : StartRequest(1, c, SatOutcomes)
  \/ \E o \in FetchOutcomes : FetchSettles(1, o, SatOutcomes)

SpecDegraded == Init /\ [][NextDegraded]_vars

-----------------------------------------------------------------------------
(* The handler on every catalog text: one request for iridium, served from   *)
(* a file the server starts with, fresh or two hours old, or from a fetch.   *)

CatalogFetchOutcomes ==
  {[kind |-> "timeout", data |-> <<>>]}
  \cup {[kind |-> "ok", data |-> b] : b \in UpstreamBodies \cup LongCatalogs}

InitCatalog ==
  /\ cache \in {NoFiles} \cup {WriteCache(NoFiles, "iridium", t, 0) : t \in CatalogTexts}
  /\ now \in {0, MIN_REFRESH_MS + 1}
  /\ ticks = 0
  /\ pc = [r \in Requests |-> "idle"]
  /\ constellationOf = [r \in Requests |-> ""]
  /\ \E maxSats \in MaxSatsValues :
       maxSatsOf = [r \in Requests |-> IF r = 1 THEN maxSats ELSE Null]
  /\ calls = [r \in Requests |-> NoCalls]
  /\ sent = NoResponse
  /\ answered = NotAnswered
  /\ looks = <<>>

NextCatalog ==
  \/ StartRequest(1, "iridium", LiveOutcomes)
  \/ \E o \in CatalogFetchOutcomes : FetchSettles(1, o, LiveOutcomes)

SpecCatalog == InitCatalog /\ [][NextCatalog]_vars

-----------------------------------------------------------------------------
(* The handler on a list of three element sets and every outcome of          *)
(* satellite.js: one request, served from a fresh file or from a fetch.      *)

\* catalog numbers 25544, 5 and 42, in this order
CatalogThree ==
  JoinLines(<<NameA, Line1A, Line2A, NameB, Line1B, Line2B, NameA, Line1Padded, Line2A>>)

InitOrder ==
  /\ cache = WriteCache(NoFiles, "iridium", CatalogThree, 0)
  /\ now = 0
  /\ ticks = 0
  /\ pc = [r \in Requests |-> "idle"]
  /\ constellationOf = [r \in Requests |-> ""]
  /\ maxSatsOf = [r \in Requests |-> Null]
  /\ calls = [r \in Requests |-> NoCalls]
  /\ sent = NoResponse
  /\ answered = NotAnswered
  /\ looks = <<>>

NextOrder ==
  \/ \E c \in {"iridium", "starlink"} : StartRequest(1, c, SatOutcomes)
  \/ \E o \in {[kind |-> "timeout", data |-> <<>>], [kind |-> "ok", data |-> CatalogThree]} :
       FetchSettles(1, o, SatOutcomes)

SpecOrder == InitOrder /\ [][NextOrder]_vars

-----------------------------------------------------------------------------
(* Progress.  The timeout of axios.get bounds the time its promise stays     *)
(* pending, and the event loop runs the continuation of a settled promise:   *)
(* a request that is fetching is not left there forever.                     *)

NextLive ==
  \/ \E d \in ClockSteps : Tick(d)
  \/ \E r \in Requests, c \in Constellations : StartRequest(r, c, LiveOutcomes)
  \/ \E r \in Requests, o \in FetchOutcomes : FetchSettles(r, o, LiveOutcomes)

Fairness ==
  \A r \in Requests : WF_vars(\E o \in FetchOutcomes : FetchSettles(r, o, LiveOutcomes))

SpecLive == Init /\ [][NextLive]_vars /\ Fairness

-----------------------------------------------------------------------------
(* Vocabulary of the properties *)

\* request r arrives for constellation c in this step
Arrives(r, c) ==
  /\ pc[r] = "idle"
  /\ pc'[r] # "idle"
  /\ IF pc'[r] = "fetching" THEN constellationOf'[r] = c
     ELSE answered'.req = r /\ answered'.constellation = c

\* the axios.get of request r settles in this step
Settles(r) == pc[r] = "fetching" /\ pc'[r] = "done"

\* age of the file of group g
AgeMs(g) == now - cache[g].mtimeMs

\* the fetch failed: a timeout, an HTTP error or an empty body
FetchFailed(o) ==
  \/ o.kind \in {"timeout", "httpError"}
  \/ o.kind = "ok" /\ Trim(o.data) = <<>>

\* the failure mode of a failed fetch
ModeOf(o) == IF o.kind = "ok" THEN "emptyBody" ELSE o.kind

-----------------------------------------------------------------------------
(* Properties of the cache policy, under Spec *)

\* C1: a request for a group whose file exists and is younger than 2 hours is
\* answered from the parse of that file, with no network call and no cache
\* write.
C1_FreshEntryServedWithoutFetch ==
  [][\A r \in Requests, g \in Groups :
       (Arrives(r, g) /\ cache[g].exists /\ AgeMs(g) < MIN_REFRESH_MS)
       => /\ pc'[r] = "done"
          /\ answered'.req = r
          /\ answered'.list = parseTLEs(cache[g].text)
          /\ answered'.calls.netCalls = 0
          /\ answered'.calls.cacheWrites = 0
          /\ cache' = cache]_vars

\* a request was just answered from a file one millisecond old that holds
\* two element sets
C1_Witness ==
  /\ answered.req # 0
  /\ answered.calls.served = "cache"
  /\ answered.calls.netCalls = 0
  /\ answered.constellation \in Groups
  /\ cache[answered.constellation].exists
  /\ now - cache[answered.constellation].mtimeMs = 1
  /\ Len(answered.list) = 2

\* C2: when the fetch fails and the group's file exists, the request gets the
\* parse of that file and the file keeps its text and its timestamp.
C2_FailedFetchReturnsEntryUnmodified ==
  [][\A r \in Requests :
       (Settles(r) /\ FetchFailed(answered'.fetch) /\ cache[constellationOf[r]].exists)
       => /\ answered'.req = r
          /\ sent'.status = 200
          /\ answered'.list = parseTLEs(cache[constellationOf[r]].text)
          /\ cache'[constellationOf[r]] = cache[constellationOf[r]]
          /\ cache'[constellationOf[r]].exists]_vars

\* a request whose fetch timed out was just answered from a stale file
C2_Witness ==
  /\ answered.req # 0
  /\ answered.fetch.kind = "timeout"
  /\ answered.calls.served = "fallback"
  /\ cache[answered.constellation].exists
  /\ now - cache[answered.constellation].mtimeMs > MIN_REFRESH_MS
  /\ Len(answered.list) = 2

\* C3: when the fetch fails and the group has no file, the request fails with
\* NoCacheAvailable, no file is created and the response is an error payload
\* without satellites.
C3_FailedFetchWithoutEntryFails ==
  [][\A r \in Requests :
       (Settles(r) /\ FetchFailed(answered'.fetch) /\ ~cache[constellationOf[r]].exists)
       => /\ answered'.req = r
          /\ answered'.calls.served = "error"
          /\ sent'.status = 500
          /\ sent'.error = NoCacheAvailable
          /\ sent'.satellites = <<>>
          /\ looks' = <<>>
          /\ cache' = cache]_vars

\* a request whose fetch got an HTTP error was just refused, and its group
\* has no file
C3_Witness ==
  /\ answered.req # 0
  /\ answered.fetch.kind = "httpError"
  /\ sent.status = 500
  /\ sent.error = NoCacheAvailable
  /\ ~cache[answered.constellation].exists

\* C4: a request for a group whose file is older than 2 hours calls the
\* network before it is answered, whatever the file holds.
C4_OldEntryIsStaleWhateverItsText ==
  [][\A r \in Requests, g \in Groups :
       (Arrives(r, g) /\ cache[g].exists /\ AgeMs(g) > MIN_REFRESH_MS)
       => /\ pc'[r] = "fetching"
          /\ calls'[r].netCalls = 1
          /\ sent' = NoResponse
          /\ cache' = cache]_vars

\* a request is fetching for a group whose file is older than 2 hours and
\* holds element sets
C4_Witness ==
  \E r \in Requests :
    /\ pc[r] = "fetching"
    /\ calls[r].netCalls = 1
    /\ cache[constellationOf[r]].exists
    /\ now - cache[constellationOf[r]].mtimeMs = MIN_REFRESH_MS + 1
    /\ parseTLEs(cache[constellationOf[r]].text) # <<>>

\* C5: when the fetch succeeds with a non-empty body, the body becomes the
\* group's file, in place of any earlier one, with the time of the write as
\* its timestamp, so that the file is fresh, and the request gets the parse
\* of that body.
C5_SuccessfulFetchIsPersistedAndParsed ==
  [][\A r \in Requests :
       (Settles(r) /\ answered'.fetch.kind = "ok" /\ Trim(answered'.fetch.data) # <<>>)
       => /\ answered'.req = r
          /\ cache' = [cache EXCEPT ![constellationOf[r]] =
                         [exists |-> TRUE, text |-> answered'.fetch.data,
                          mtimeMs |-> now]]
          /\ now' - cache'[constellationOf[r]].mtimeMs < MIN_REFRESH_MS
          /\ answered'.calls.cacheWrites = 1
          /\ sent'.status = 200
          /\ answered'.list = parseTLEs(answered'.fetch.data)]_vars

\* a request was just answered from a fetched body that took the place of
\* the file the server started with
C5_Witness ==
  /\ answered.req # 0
  /\ answered.calls.served = "fetch"
  /\ answered.fetch.data = CatalogMalformed
  /\ cache[answered.constellation] =
       [exists |-> TRUE, text |-> CatalogMalformed, mtimeMs |-> now]
  /\ now > MIN_REFRESH_MS
  /\ \A g \in Groups \ {answered.constellation} : ~cache[g].exists

\* C6: a timeout, an HTTP error and an empty body are handled alike: the
\* answer and the cache after it depend only on whether the group has a file.
C6_FailureModesHandledUniformly ==
  [][\A r \in Requests, mode \in {"timeout", "httpError", "emptyBody"} :
       (Settles(r) /\ FetchFailed(answered'.fetch) /\ ModeOf(answered'.fetch) = mode)
       => /\ cache' = cache
          /\ IF cache[constellationOf[r]].exists
             THEN /\ sent'.status = 200
                  /\ answered'.calls.served = "fallback"
                  /\ answered'.list = parseTLEs(cache[constellationOf[r]].text)
             ELSE /\ sent'.status = 500
                  /\ sent'.error = NoCacheAvailable]_vars

\* a request whose fetch got a blank body was just answered from the file
C6_Witness ==
  /\ answered.req # 0
  /\ answered.fetch.kind = "ok"
  /\ answered.fetch.data = BlankBody
  /\ answered.calls.served = "fallback"
  /\ Len(answered.list) = 2

\* C7: a request whose constellation is none of iridium, starlink, kuiper is
\* refused with an error response, without a cache read, a cache write, a
\* network call or a per-satellite computation, and no file changes.
C7_UnknownConstellationRejectedFirst ==
  [][\A r \in Requests, c \in Constellations \ Groups :
       Arrives(r, c)
       => /\ pc'[r] = "done"
          /\ answered'.req = r
          /\ sent'.status = 500
          /\ sent'.error # ""
          /\ sent'.satellites = <<>>
          /\ looks' = <<>>
          /\ answered'.calls.cacheReads = 0
          /\ answered'.calls.cacheWrites = 0
          /\ answered'.calls.netCalls = 0
          /\ cache' = cache]_vars

\* a request for an unknown constellation was just refused while a file
\* exists
C7_Witness ==
  /\ answered.req # 0
  /\ answered.constellation = "galileo"
  /\ sent.status = 500
  /\ sent.error = UnknownConstellation
  /\ \E g \in Groups : cache[g].exists

-----------------------------------------------------------------------------
(* Properties of the report, under SpecCoverage *)

\* the per-satellite computation of outcome o failed: an exception, or a
\* propagation that yields no position
SatFailed(o) == o.kind \in {"throws", "noPosition"}

\* the noradIds, as serialized, of the element sets whose computation did
\* not fail
RECURSIVE Survivors(_, _)
Survivors(list, outcomes) ==
  IF list = <<>> THEN <<>>
  ELSE (IF SatFailed(Head(outcomes)) THEN <<>> ELSE <<ToJson(Head(list).noradId)>>)
       \o Survivors(Tail(list), Tail(outcomes))

\* where the entry of the i-th element set stands in the report, if none of
\* the computations up to it is dropped
EntryIndex(i) == Cardinality({j \in 1..i : ~SatFailed(looks[j])})

\* the range of outcome o is non-finite or <= 0
Degenerate(o) == ~SatFailed(o) /\ (o.rangeSat.k # "num" \/ o.rangeSat.v <= 0)

\* C8: a request whose list was returned succeeds, and its report holds one
\* entry for each element set whose computation did not fail, in list order,
\* and none for the others.
C8_FailedSatelliteOmittedOthersKept ==
  answered.calls.served \in {"cache", "fetch", "fallback"}
  => /\ sent.status = 200
     /\ Len(looks) = Len(answered.list)
     /\ Len(sent.satellites) = Len(Survivors(answered.list, looks))
     /\ \A k \in 1..Len(sent.satellites) :
          sent.satellites[k].noradId = Survivors(answered.list, looks)[k]

\* the computation of the first of two element sets threw, and the report
\* holds the second alone
C8_Witness ==
  /\ sent.status = 200
  /\ Len(answered.list) = 2
  /\ looks[1].kind = "throws"
  /\ looks[2].kind = "position"
  /\ Len(sent.satellites) = 1
  /\ sent.satellites[1].noradId = Num(5)

\* C9 as stated: available is true exactly when the entry's elevation is
\* above 10 and the entry's pathLossDb is below 160.
C9_AvailableIffReportedValues ==
  \A k \in 1..Len(sent.satellites) :
    sent.satellites[k].available
    <=> /\ sent.satellites[k].elevation.k = "num"
        /\ sent.satellites[k].elevation.v > 100
        /\ sent.satellites[k].pathLossDb.k = "num"
        /\ sent.satellites[k].pathLossDb.v < 160

\* C9, amended: available is true exactly when the range is usable, the
\* computed elevation is above 10 and the computed path loss is below 160,
\* all before rounding.  Of the rounded values the entry reports: above 10.0
\* and below 160 imply available; available implies at least 10.0 and at most
\* 160; a null value implies not available.
C9_AvailableIffComputedValues ==
  /\ \A i \in 1..Len(looks) :
       (~SatFailed(looks[i]) /\ EntryIndex(i) <= Len(sent.satellites))
       => sent.satellites[EntryIndex(i)].available
          = /\ looks[i].rangeSat.k = "num"
            /\ looks[i].rangeSat.v > 0
            /\ looks[i].elevation.k = "num"
            /\ looks[i].elevation.v > 1000
            /\ PathLossDb(looks[i].rangeSat.v, sent.constellation) < 160000
  /\ \A k \in 1..Len(sent.satellites) :
       LET e == sent.satellites[k]
       IN /\ (e.elevation = Null \/ e.pathLossDb = Null) => ~e.available
          /\ e.available => e.elevation.v >= 100 /\ e.pathLossDb.v <= 160
          /\ (e.elevation # Null /\ e.pathLossDb # Null
              /\ e.elevation.v > 100 /\ e.pathLossDb.v < 160) => e.available

\* an entry reports elevation 10.0 and is available: the elevation was 10.04
C9_Witness ==
  \E k \in 1..Len(sent.satellites) :
    /\ sent.satellites[k].available
    /\ sent.satellites[k].elevation = Num(100)
    /\ looks[k].elevation = Num(1004)

\* C10: a satellite whose range is non-finite or <= 0 is in the report with
\* rangeKm null, pathLossDb null, available false, its geodetic position and
\* its coverage radius; and in every entry rangeKm is null exactly when
\* pathLossDb is.
C10_DegenerateRangeReportedAsNull ==
  /\ \A i \in 1..Len(looks) :
       Degenerate(looks[i])
       => /\ EntryIndex(i) <= Len(sent.satellites)
          /\ LET e == sent.satellites[EntryIndex(i)]
             IN /\ e.noradId = ToJson(answered.list[i].noradId)
                /\ e.rangeKm = Null
                /\ e.pathLossDb = Null
                /\ e.available = FALSE
                /\ e.lat = looks[i].lat
                /\ e.lng = looks[i].lng
                /\ e.altitudeKm = looks[i].height
                /\ e.coverageRadiusKm = CoverageRadiusKm(looks[i].height)
  /\ \A k \in 1..Len(sent.satellites) :
       (sent.satellites[k].rangeKm = Null) <=> (sent.satellites[k].pathLossDb = Null)

\* the second of two satellites has range 0 and is reported with null range
\* and path loss, after a first one with a usable range
C10_Witness ==
  /\ Len(looks) = 2
  /\ looks[1].rangeSat = Num(5500)
  /\ looks[2].rangeSat = Num(0)
  /\ Len(sent.satellites) = 2
  /\ sent.satellites[1].rangeKm = Num(550)
  /\ sent.satellites[2].rangeKm = Null
  /\ sent.satellites[2].pathLossDb = Null

\* The path loss of the entries of one report, under SpecOrder.

\* C19 as stated: of two entries of a report, the one with the smaller
\* rangeKm has the strictly smaller pathLossDb.
C19_PathLossStrictlyIncreasing ==
  \A i \in 1..Len(sent.satellites), j \in 1..Len(sent.satellites) :
    (sent.satellites[i].rangeKm # Null /\ sent.satellites[j].rangeKm # Null
     /\ sent.satellites[i].rangeKm.v < sent.satellites[j].rangeKm.v)
    => sent.satellites[i].pathLossDb.v < sent.satellites[j].pathLossDb.v

\* C19, amended: of two entries of a report, the one with the smaller range,
\* as computed or as reported, has a pathLossDb that is not greater, and a
\* strictly smaller one when the computed path losses differ by 1 dB or more.
C19_PathLossNonDecreasing ==
  /\ \A i \in 1..Len(sent.satellites), j \in 1..Len(sent.satellites) :
       (sent.satellites[i].rangeKm # Null /\ sent.satellites[j].rangeKm # Null
        /\ sent.satellites[i].rangeKm.v < sent.satellites[j].rangeKm.v)
       => sent.satellites[i].pathLossDb.v <= sent.satellites[j].pathLossDb.v
  /\ \A i \in 1..Len(looks), j \in 1..Len(looks) :
       (/\ sent.status = 200
        /\ ~SatFailed(looks[i]) /\ ~Degenerate(looks[i])
        /\ ~SatFailed(looks[j]) /\ ~Degenerate(looks[j])
        /\ looks[i].rangeSat.v < looks[j].rangeSat.v)
       => LET ei == sent.satellites[EntryIndex(i)]
              ej == sent.satellites[EntryIndex(j)]
              li == PathLossDb(looks[i].rangeSat.v, sent.constellation)
              lj == PathLossDb(looks[j].rangeSat.v, sent.constellation)
          IN /\ ei.pathLossDb.v <= ej.pathLossDb.v
             /\ lj - li >= 1000 => ei.pathLossDb.v < ej.pathLossDb.v

\* a report for iridium holds an entry with rangeKm 550 and one with rangeKm
\* 551, both with pathLossDb 91, and the entry of a far satellite with a
\* greater pathLossDb
C19_Witness ==
  /\ sent.constellation = "iridium"
  /\ Len(sent.satellites) = 3
  /\ sent.satellites[1].rangeKm = Num(550)
  /\ sent.satellites[1].pathLossDb = Num(91)
  /\ sent.satellites[2].rangeKm = Num(551)
  /\ sent.satellites[2].pathLossDb = Num(91)
  /\ sent.satellites[3].rangeKm = Num(1450000)
  /\ sent.satellites[3].pathLossDb = Num(160)

-----------------------------------------------------------------------------
(* Properties of the request as a whole *)

\* request r is answered in this step
Completes(r) == pc[r] # "done" /\ pc'[r] = "done"

\* C11: a request is answered with an error payload exactly when its
\* constellation is none of the groups, or its fetch failed while the group
\* had no file; every other request, whatever the fetch, the file and the
\* per-satellite computations yield, is answered with status 200 and a list
\* no longer than the element-set list.
C11_OnlyTwoRequestLevelFailures ==
  [][\A r \in Requests :
       Completes(r)
       => /\ answered'.req = r
          /\ sent'.status \in {200, 500}
          /\ sent'.status = 500
             <=> \/ answered'.constellation \notin Groups
                 \/ /\ Settles(r)
                    /\ FetchFailed(answered'.fetch)
                    /\ ~cache[answered'.constellation].exists
          /\ sent'.status = 500 => sent'.error # "" /\ sent'.satellites = <<>>
          /\ sent'.status = 200
             => /\ sent'.error = ""
                /\ Len(sent'.satellites) <= Len(answered'.list)]_vars

\* a request whose fetch timed out was just answered with status 200 from a
\* stale file, although one computation threw and another had a degenerate
\* range
C11_Witness ==
  /\ sent.status = 200
  /\ answered.calls.served = "fallback"
  /\ answered.fetch.kind = "timeout"
  /\ Len(looks) = 2
  /\ looks[1].kind = "throws"
  /\ Degenerate(looks[2])
  /\ Len(sent.satellites) = 1
  /\ sent.satellites[1].rangeKm = Null

\* C12: a request that awaits its fetch is eventually answered, a timeout
\* being one of the ways the fetch ends and being handled as a failed fetch;
\* and every answer is a satellite list or an error payload.
C12_EveryRequestCompletes ==
  /\ \A r \in Requests : (pc[r] = "fetching") ~> (pc[r] = "done")
  /\ [][\A r \in Requests :
          Completes(r)
          => /\ sent'.req = r
             /\ \/ sent'.status = 200 /\ sent'.error = ""
                \/ sent'.status = 500 /\ sent'.error # "" /\ sent'.satellites = <<>>
             /\ (Settles(r) /\ answered'.fetch.kind = "timeout")
                => answered'.calls.served
                   = IF cache[constellationOf[r]].exists THEN "fallback" ELSE "error"]_vars

\* the first request was just refused after its fetch timed out, while the
\* second still awaits its own
C12_Witness ==
  /\ sent.req = 1
  /\ sent.status = 500
  /\ answered.fetch.kind = "timeout"
  /\ pc[1] = "done"
  /\ pc[2] = "fetching"

-----------------------------------------------------------------------------
(* Properties of concurrent requests and of the age boundary, under Spec *)

\* the file of group g is missing or older than 2 hours
StaleNow(g) == ~cache[g].exists \/ AgeMs(g) > MIN_REFRESH_MS

\* C13: a request that arrives for a stale group while another request is
\* fetching for that group calls the network itself; every request whose
\* fetch succeeds writes the group's file, whatever the other requests have
\* written since it arrived; and the file changes in no other step, so that
\* it holds the body of the last successful write.
C13_ConcurrentFetchesLastWriteWins ==
  [][/\ \A r \in Requests, q \in Requests, g \in Groups :
          (r # q /\ Arrives(r, g) /\ StaleNow(g)
           /\ pc[q] = "fetching" /\ constellationOf[q] = g)
          => /\ pc'[r] = "fetching" /\ calls'[r].netCalls = 1
             /\ pc'[q] = "fetching" /\ calls'[q].netCalls = 1
     /\ \A r \in Requests :
          (Settles(r) /\ answered'.fetch.kind = "ok" /\ Trim(answered'.fetch.data) # <<>>)
          => /\ answered'.calls.netCalls = 1
             /\ answered'.calls.cacheWrites = 1
             /\ cache'[constellationOf[r]].text = answered'.fetch.data
             /\ cache'[constellationOf[r]].mtimeMs = now
     /\ cache' # cache
        => \E r \in Requests :
             /\ Settles(r)
             /\ answered'.calls.served = "fetch"
             /\ \A g \in Groups \ {constellationOf[r]} : cache'[g] = cache[g]]_vars

\* the second request arrived for a group the first was fetching for, called
\* the network itself and has just written the file, while the first still
\* awaits its own fetch
C13_Witness ==
  /\ pc[1] = "fetching"
  /\ calls[1].netCalls = 1
  /\ answered.req = 2
  /\ answered.constellation = constellationOf[1]
  /\ answered.calls.served = "fetch"
  /\ answered.calls.netCalls = 1
  /\ answered.fetch.data = CatalogMalformed
  /\ cache[answered.constellation] = File(CatalogMalformed, now)

\* C20: a request for a group whose file exists is served from the file,
\* with no network call, only when the file is younger than 2 hours;
\* otherwise, also when its age is exactly 2 hours, the request calls the
\* network.
C20_AgeOfExactlyTwoHoursIsStale ==
  [][\A r \in Requests, g \in Groups :
       (Arrives(r, g) /\ cache[g].exists)
       => IF AgeMs(g) < MIN_REFRESH_MS
          THEN /\ pc'[r] = "done"
               /\ answered'.calls.served = "cache"
               /\ answered'.calls.netCalls = 0
          ELSE /\ pc'[r] = "fetching"
               /\ calls'[r].netCalls = 1]_vars

-----------------------------------------------------------------------------
(* Properties of the parser, under SpecCatalog: answered.list is what        *)
(* parseTLEs made of the file or of the body the request was served from     *)

DecimalDigits == {"0", "1", "2", "3", "4", "5", "6", "7", "8", "9"}

\* columns 3 to 7 (1-indexed) of a line, without the white space before
\* their first other character
RECURSIVE Unpadded(_)
Unpadded(f) ==
  IF f # <<>> /\ f[1] \in {" ", "\t", "\r"} THEN Unpadded(SubSeq(f, 2, Len(f))) ELSE f

ColumnsThreeToSeven(line) ==
  Unpadded(SubSeq(line, 3, IF Len(line) < 7 THEN Len(line) ELSE 7))

\* the field is a decimal integer
IsDecimal(f) == f # <<>> /\ \A i \in 1..Len(f) : f[i] \in DecimalDigits

ValueOfDigit(c) ==
  CASE c = "0" -> 0 [] c = "1" -> 1 [] c = "2" -> 2 [] c = "3" -> 3 [] c = "4" -> 4
    [] c = "5" -> 5 [] c = "6" -> 6 [] c = "7" -> 7 [] c = "8" -> 8 [] c = "9" -> 9

RECURSIVE DecimalValue(_)
DecimalValue(f) ==
  IF f = <<>> THEN 0
  ELSE 10 * DecimalValue(SubSeq(f, 1, Len(f) - 1)) + ValueOfDigit(f[Len(f)])

HasPrefix(line, first) == Len(line) >= 2 /\ line[1] = first /\ line[2] = " "

SourceText ==
  IF answered.calls.served = "fetch" THEN answered.fetch.data
  ELSE cache[answered.constellation].text

\* the request just answered was served a list
Served == answered.calls.served \in {"cache", "fetch", "fallback"}

\* the triplets of a catalog: the consecutive groups of three lines of the
\* trimmed text, as <<name, line1, line2>>
Triplets(text) ==
  LET lines == SplitLines(Trim(text))
  IN [k \in 1..(Len(lines) \div 3) |-> <<lines[3 * k - 2], lines[3 * k - 1], lines[3 * k]>>]

WellFormed(t) == HasPrefix(t[2], "1") /\ HasPrefix(t[3], "2")

\* the number of well-formed triplets among the first k
Rank(trip, k) == Cardinality({j \in 1..k : WellFormed(trip[j])})

\* C15: a triplet whose line1 does not start with "1 " or whose line2 does
\* not start with "2 " yields no record, and every well-formed triplet after
\* it that is among the first 30 well-formed ones yields its record, at the
\* place of its rank.
C15_MalformedTripletDroppedOthersParsed ==
  Served
  => LET trip == Triplets(SourceText)
     IN \A m \in 1..Len(trip) :
          ~WellFormed(trip[m])
          => /\ \A i \in 1..Len(answered.list) :
                  <<answered.list[i].line1, answered.list[i].line2>>
                  # <<trip[m][2], trip[m][3]>>
             /\ \A k \in (m + 1)..Len(trip) :
                  (WellFormed(trip[k]) /\ Rank(trip, k) <= MaxSats)
                  => /\ Rank(trip, k) <= Len(answered.list)
                     /\ answered.list[Rank(trip, k)].line1 = trip[k][2]
                     /\ answered.list[Rank(trip, k)].line2 = trip[k][3]

\* a list of two records was parsed from a catalog of three triplets of
\* which the first is malformed
C15_Witness ==
  /\ Served
  /\ Len(Triplets(SourceText)) = 3
  /\ ~WellFormed(Triplets(SourceText)[1])
  /\ WellFormed(Triplets(SourceText)[2])
  /\ WellFormed(Triplets(SourceText)[3])
  /\ Len(answered.list) = 2
  /\ answered.list[2].line1 = Triplets(SourceText)[3][2]

\* the place in the catalog of its i-th well-formed triplet
KthWellFormed(trip, i) ==
  CHOOSE k \in 1..Len(trip) : WellFormed(trip[k]) /\ Rank(trip, k) = i

\* C16: the list a request is served, from a fresh file, from a fetched body
\* or from a stale file, holds the first 30 well-formed triplets of the
\* text, or all of them if there are fewer, in the order of the text.
C16_ListIsFirstThirtyInCatalogOrder ==
  Served
  => LET trip == Triplets(SourceText)
         accepted == Rank(trip, Len(trip))
     IN /\ Len(answered.list) = IF accepted < MaxSats THEN accepted ELSE MaxSats
        /\ \A i \in 1..Len(answered.list) :
             /\ answered.list[i].line1 = trip[KthWellFormed(trip, i)][2]
             /\ answered.list[i].line2 = trip[KthWellFormed(trip, i)][3]

\* a request was served, from a stale file of 32 triplets of which the
\* second is malformed, the 30 records of the triplets 1 and 3 to 31
C16_Witness ==
  /\ answered.calls.served = "fallback"
  /\ Len(Triplets(SourceText)) = MaxSats + 2
  /\ Len(answered.list) = MaxSats
  /\ answered.list[1].noradId = Num(1)
  /\ answered.list[2].noradId = Num(3)
  /\ answered.list[MaxSats].noradId = Num(MaxSats + 1)

\* C18: a request served from a catalog, cached or fetched, that has
\* triplets, none of them well-formed, is answered with status 200, no error
\* and an empty satellite list.
C18_MalformedCatalogYieldsEmptyReport ==
  (Served /\ Len(Triplets(SourceText)) > 0
   /\ \A k \in 1..Len(Triplets(SourceText)) : ~WellFormed(Triplets(SourceText)[k]))
  => /\ answered.list = <<>>
     /\ sent.req = answered.req
     /\ sent.status = 200
     /\ sent.error = ""
     /\ sent.satellites = <<>>

\* a request was just answered with an empty list from a fresh file of two
\* triplets, one with a wrong line1 and one with a wrong line2
C18_Witness ==
  /\ answered.calls.served = "cache"
  /\ Len(Triplets(SourceText)) = 2
  /\ ~HasPrefix(Triplets(SourceText)[1][2], "1")
  /\ ~HasPrefix(Triplets(SourceText)[2][3], "2")
  /\ sent.status = 200
  /\ sent.satellites = <<>>

-----------------------------------------------------------------------------
(* Properties of the order of the report, under SpecOrder *)

\* C17: the entries of a report stand in the order of the element sets they
\* were computed from: there is a strictly increasing map from the entries
\* to the places of the list such that every entry carries the noradId of
\* the element set at its place and the elevation computed for it.
C17_ReportKeepsListOrder ==
  sent.status = 200
  => \E f \in [1..Len(sent.satellites) -> 1..Len(answered.list)] :
       /\ \A i \in 1..Len(sent.satellites), j \in 1..Len(sent.satellites) :
            i < j => f[i] < f[j]
       /\ \A k \in 1..Len(sent.satellites) :
            /\ sent.satellites[k].noradId = ToJson(answered.list[f[k]].noradId)
            /\ ~SatFailed(looks[f[k]])
            /\ sent.satellites[k].elevation = ToJson(ToFixed1(looks[f[k]].elevation))

\* of three element sets 25544, 5 and 42 the second failed; the report holds
\* 25544, not available at elevation 10.0, before 42, available at
\* elevation 45.0
C17_Witness ==
  /\ sent.status = 200
  /\ Len(answered.list) = 3
  /\ looks[2].kind = "throws"
  /\ Len(sent.satellites) = 2
  /\ sent.satellites[1].noradId = Num(25544)
  /\ sent.satellites[1].elevation = Num(100)
  /\ ~sent.satellites[1].available
  /\ sent.satellites[2].noradId = Num(42)
  /\ sent.satellites[2].elevation = Num(450)
  /\ sent.satellites[2].available

-----------------------------------------------------------------------------
(* Properties of the life of a cache file, under Spec *)

\* C21: no step deletes the file of a group: whatever a request does (served
\* from the fresh file, refreshed it, failed to refresh it), a file that
\* exists before the step exists after it; and no request for a group whose
\* file exists is answered with the error of a missing cache, whatever the
\* other requests do in between.
C21_CacheFileNeverDeleted ==
  [][/\ \A g \in Groups : cache[g].exists => cache'[g].exists
     /\ \A r \in Requests :
          (Completes(r) /\ answered'.constellation \in Groups
           /\ cache[answered'.constellation].exists)
          => /\ sent'.status = 200
             /\ sent'.error # NoCacheAvailable
             /\ cache'[answered'.constellation].exists]_vars

\* a fetch wrote the file of a group (the text is none the server starts
\* with), the file grew older than 2 hours, and a request whose refresh
\* timed out was just served from it
C21_Witness ==
  /\ answered.calls.served = "fallback"
  /\ answered.fetch.kind = "timeout"
  /\ sent.status = 200
  /\ cache[answered.constellation].exists
  /\ cache[answered.constellation].text = CatalogMalformed
  /\ AgeMs(answered.constellation) > MIN_REFRESH_MS

\* C22: a request whose refresh failed and that was served from the stale
\* file leaves the file as it was, its modification time included: the file
\* is as stale after the response as before, and a request that arrives next
\* for that group calls the network again.
C22_StaleFallbackLeavesNoTrace ==
  [][/\ \A r \in Requests :
          (Settles(r) /\ answered'.calls.served = "fallback"
           /\ AgeMs(constellationOf[r]) > MIN_REFRESH_MS)
          => /\ cache' = cache
             /\ now' - cache'[constellationOf[r]].mtimeMs > MIN_REFRESH_MS
             /\ isStale(cache'[constellationOf[r]], now')
     /\ \A r \in Requests :
          (answered.calls.served = "fallback"
           /\ AgeMs(answered.constellation) > MIN_REFRESH_MS
           /\ Arrives(r, answered.constellation))
          => /\ pc'[r] = "fetching"
             /\ calls'[r].netCalls = 1
             /\ cache' = cache]_vars

\* the first request was just served from a file older than 2 hours after its
\* refresh timed out, the file is still the one the server started with, and
\* the second request has not arrived yet
C22_Witness ==
  /\ answered.req = 1
  /\ answered.calls.served = "fallback"
  /\ answered.calls.netCalls = 1
  /\ answered.fetch.kind = "timeout"
  /\ cache[answered.constellation] = File(CatalogTwo, 0)
  /\ now > MIN_REFRESH_MS
  /\ pc[2] = "idle"

-----------------------------------------------------------------------------
(* Properties of the instants of a report, under SpecCoverage *)

\* the iteration read the clock: twoline2satrec did not throw
ReadsClock(o) == o.kind # "throws"

\* C23: all satellite states of one report are computed at one instant: any
\* two satellites of the report are propagated at the same instant, and for
\* each satellite the propagation and the sidereal-time rotation use the
\* same instant.
C23_ReportComputedAtOneInstant ==
  /\ \A i \in DOMAIN looks, j \in DOMAIN looks :
       (ReadsClock(looks[i]) /\ ReadsClock(looks[j]))
       => PropagatedAt(looks[i]) = PropagatedAt(looks[j])
  /\ \A i \in DOMAIN looks :
       ReadsClock(looks[i]) => PropagatedAt(looks[i]) = GstimeAt(looks[i])

-----------------------------------------------------------------------------
(* Properties of a failed fetch among concurrent requests, under Spec *)

\* C24: when the fetch of a request fails, the catch block decides on the
\* file as it is when the failure is handled, not as it was when the request
\* checked its staleness: if the file exists then, a file another request
\* wrote in the meantime included, the request is served the parse of that
\* file; the error of a missing cache is raised only if no file exists then.
C24_FallbackDecidedAtFailure ==
  [][\A r \in Requests :
       (Settles(r) /\ FetchFailed(answered'.fetch))
       => LET g == constellationOf[r]
          IN /\ cache[g].exists
                => /\ sent'.status = 200
                   /\ answered'.calls.served = "fallback"
                   /\ answered'.list = Parsed(cache[g].text)
             /\ sent'.error = NoCacheAvailable <=> ~cache[g].exists
             /\ ~cache[g].exists => sent'.status = 500]_vars

\* the clock has not moved since the server started and the first request
\* went fetching, so its group had no file when it checked; the second
\* request has since written a catalog without valid triplet, and the first,
\* whose fetch timed out, was just served the parse of that newer file
C24_Witness ==
  /\ now = 0
  /\ answered.req = 1
  /\ answered.fetch.kind = "timeout"
  /\ answered.calls.served = "fallback"
  /\ answered.calls.netCalls = 1
  /\ sent.status = 200
  /\ answered.list = <<>>
  /\ pc[2] = "done"
  /\ cache[answered.constellation] = File(CatalogMalformed, 0)

-----------------------------------------------------------------------------
(* Properties of a cached catalog without valid triplet, under Spec *)

\* the file of group g holds a non-blank text without valid triplet and is
\* younger than 2 hours
Poisoned(g) ==
  /\ cache[g].exists
  /\ Trim(cache[g].text) # <<>>
  /\ Parsed(cache[g].text) = <<>>
  /\ AgeMs(g) < MIN_REFRESH_MS

\* the fetch of request r succeeds in this step with a non-blank body without
\* valid triplet
FetchesUnparsable(r) ==
  /\ Settles(r)
  /\ answered'.fetch.kind = "ok"
  /\ Trim(answered'.fetch.data) # <<>>
  /\ Parsed(answered'.fetch.data) = <<>>

\* the body is written over whatever file the group had, and the request is
\* answered with an empty list
UnparsableBodyPersisted ==
  \A r \in Requests :
    FetchesUnparsable(r)
    => /\ cache'[constellationOf[r]] = File(answered'.fetch.data, now)
       /\ sent'.status = 200
       /\ sent'.satellites = <<>>

\* C25: a successful fetch whose body is non-empty but holds no valid triplet
\* is persisted over the file the group had; and every request for that
\* group that is answered during the following 2 hours is answered with an
\* empty satellite list, with no network call and no error.
C25_EveryRequestThenServedEmpty ==
  [][/\ UnparsableBodyPersisted
     /\ \A r \in Requests, g \in Groups :
          (Completes(r) /\ answered'.constellation = g /\ Poisoned(g))
          => /\ sent'.status = 200
             /\ sent'.satellites = <<>>
             /\ answered'.calls.netCalls = 0]_vars

\* C25, amended: a successful fetch whose body is non-empty but holds no
\* valid triplet is persisted over the file the group had; and every request
\* that arrives for that group while that file is in place and younger than
\* 2 hours is answered with an empty satellite list, with no network call,
\* no cache write and no error.
C25_ArrivalsThenServedEmpty ==
  [][/\ UnparsableBodyPersisted
     /\ \A r \in Requests, g \in Groups :
          (Arrives(r, g) /\ Poisoned(g))
          => /\ pc'[r] = "done"
             /\ sent'.status = 200
             /\ sent'.satellites = <<>>
             /\ answered'.calls.served = "cache"
             /\ answered'.calls.netCalls = 0
             /\ cache' = cache]_vars

\* the file of a group was written, after the clock had passed 2 hours, by a
\* fetch whose body held no valid triplet, and the second request, arriving
\* for that group, was just answered from it with an empty list and no
\* network call
C25_Witness ==
  /\ answered.req = 2
  /\ answered.calls.served = "cache"
  /\ answered.calls.netCalls = 0
  /\ sent.status = 200
  /\ sent.satellites = <<>>
  /\ cache[answered.constellation].text = CatalogMalformed
  /\ cache[answered.constellation].mtimeMs > MIN_REFRESH_MS
  /\ Poisoned(answered.constellation)

-----------------------------------------------------------------------------
(* Properties of what is written to the cache, under Spec *)

\* C26: the server never writes an empty or whitespace-only body to the
\* cache: the file of a group changes only in the step in which the fetch of
\* a request for that group succeeds with a body that is non-empty after
\* trimming, it then holds that body, and so every file holds a text that is
\* non-empty after trimming.
C26_OnlyNonBlankBodiesWritten ==
  [][/\ \A g \in Groups :
          cache'[g] # cache[g]
          => \E r \in Requests :
               /\ Settles(r)
               /\ constellationOf[r] = g
               /\ answered'.fetch.kind = "ok"
               /\ answered'.fetch.data # <<>>
               /\ Trim(answered'.fetch.data) # <<>>
               /\ cache'[g] = File(answered'.fetch.data, now)
     /\ \A g \in Groups :
          cache'[g].exists
          => cache'[g].text # <<>> /\ Trim(cache'[g].text) # <<>>]_vars

\* the fetch of a request came back with status 2xx and a body of white space
\* only: nothing was written, the group still has no file, and the request
\* was refused
C26_Witness ==
  /\ answered.fetch.kind = "ok"
  /\ answered.fetch.data = BlankBody
  /\ answered.fetch.data # <<>>
  /\ answered.calls.cacheWrites = 0
  /\ ~cache[answered.constellation].exists
  /\ sent.error = NoCacheAvailable

-----------------------------------------------------------------------------
(* Properties of the size of a report, under SpecCatalog *)

\* C27: a report never holds more than 30 satellites, whatever the maxSats
\* of the query: the report is what the loop makes of the first 30 element
\* sets of the catalog, one entry for each here, be maxSats absent, smaller
\* or larger than that.
C27_AtMostThirtyWhateverMaxSats ==
  sent.status = 200
  => /\ Len(sent.satellites) <= MaxSats
     /\ \A maxSats \in MaxSatsValues :
          maxSatsOf[sent.req] = maxSats
          => /\ sent.satellites
                = CoverageLoop(sent.constellation, Parsed(SourceText), looks, <<>>)
             /\ Len(sent.satellites) = Min(MaxSats, Rank(Triplets(SourceText),
                                                         Len(Triplets(SourceText))))

\* a request with maxSats=300 was answered 30 satellites from a catalog of 31
\* well-formed triplets
C27_Witness ==
  /\ sent.status = 200
  /\ maxSatsOf[sent.req] = Num(300)
  /\ Rank(Triplets(SourceText), Len(Triplets(SourceText))) = 31
  /\ Len(sent.satellites) = 30

-----------------------------------------------------------------------------
(* Properties of the grouping of lines, under SpecCatalog *)

\* the lines of the text the list was parsed from
SourceLines == SplitLines(Trim(SourceText))

\* the 0-based indices j at which a line starting with "1 " is followed by a
\* line starting with "2 "
ValidPairs(lines) ==
  {j \in 0..(Len(lines) - 2) :
     HasPrefix(lines[j + 1], "1") /\ HasPrefix(lines[j + 2], "2")}

\* those at the places 3k+1, 3k+2 of the stride
AlignedPairs(lines) == {j \in ValidPairs(lines) : j % 3 = 1}

\* the i-th element of a set of numbers, in increasing order
NthOf(S, i) == CHOOSE j \in S : Cardinality({x \in S : x < j}) = i - 1

\* C28: parseTLEs groups the lines of the trimmed text at a fixed stride of
\* 3 from its first line and never re-synchronises: the list holds, in
\* order, the line1/line2 pairs that sit at the indices 3k+1 and 3k+2, up to
\* 30 of them, and nothing else; a valid pair at any other place is not
\* emitted, so that every triplet after one extra or one missing line is
\* rejected.
C28_FixedStrideNeverResynchronises ==
  Served
  => LET lines == SourceLines
         aligned == AlignedPairs(lines)
     IN /\ Len(answered.list) = Min(MaxSats, Cardinality(aligned))
        /\ \A i \in DOMAIN answered.list :
             LET j == NthOf(aligned, i)
             IN /\ answered.list[i].line1 = lines[j + 1]
                /\ answered.list[i].line2 = lines[j + 2]
        /\ \A j \in ValidPairs(lines) \ aligned :
             \A i \in DOMAIN answered.list :
               (answered.list[i].line1 = lines[j + 1]
                /\ answered.list[i].line2 = lines[j + 2])
               => \E k \in aligned : /\ lines[k + 1] = lines[j + 1]
                                     /\ lines[k + 2] = lines[j + 2]

\* the request was served from a catalog of three well-formed triplets with
\* one line in excess after the first: of its three valid pairs only the
\* first sits on the stride, and the list holds that one alone
C28_Witness ==
  /\ Served
  /\ Len(SourceLines) = 10
  /\ Cardinality(ValidPairs(SourceLines)) = 3
  /\ AlignedPairs(SourceLines) = {1}
  /\ Len(answered.list) = 1
  /\ answered.list[1].noradId = Num(25544)

\* the request was served from a catalog of three well-formed triplets of
\* which the second lacks its name line: the list holds the first alone
C28_WitnessMissingLine ==
  /\ Served
  /\ Len(SourceLines) = 8
  /\ Cardinality(ValidPairs(SourceLines)) = 3
  /\ AlignedPairs(SourceLines) = {1}
  /\ Len(answered.list) = 1

====
